---- MODULE Spec2Model ----
(***************************************************************************)
(* Model of the tool-wrapper worker of templates/service-template/app.py: *)
(* nats_worker subscribes to the invoke subject and schedules one         *)
(* handle_invoke task per message; handle_invoke decodes the envelope,    *)
(* runs the command with run_cli and publishes a reply on the result      *)
(* subject.  All tasks share one asyncio event loop.  (Specifications     *)
(* Spec and FairSpec.)                                                     *)
(*                                                                         *)
(* Model of the HTTP application of src/main.py as well: the lifespan      *)
(* context, app.state, the /health, /version and /ready routes and the     *)
(* logging and security-header middleware.  (Specification AppSpec.)       *)
(* The two are different processes and share no state.                     *)
(***************************************************************************)
EXTENDS Integers, Sequences, FiniteSets, TLC

\* ------------------------------------------------------------------ bounds

\* Number of inbound messages delivered in one behaviour.
MaxMsgs == 2

\* ------------------------------------------------------- program constants

\* parameters.get("timeout", 300)
DefaultTimeout == 300

\* f"tool.result.{DOMAIN}.{TOOL}" with the default DOMAIN and TOOL
RESULT_SUBJECT == "tool.result.recon.tool_name"

\* ---------------------------------------------------------- value encoding

\* Optional[str]: None is <<>>, a present string s is <<s>>.
None == <<>>
Some(x) == <<x>>

\* Python truthiness of an Optional[str]: None and "" are falsy.
Truthy(o) == o # None /\ o[1] # ""

\* Python `a or b`: a when a is truthy, else b.
PyOr(a, b) == IF Truthy(a) THEN a ELSE b

\* ------------------------------------------------------------------ inputs

\* Values of the id and correlation_id keys: absent, empty string, a token.
IdValues == {None, Some(""), Some("abc")}
CorrValues == {None, Some(""), Some("corr")}

\* Values of the timestamp key: absent (decoding fails), empty, a time.
TimestampValues == {None, Some(""), Some("2025-01-01T00:00:00Z")}

\* A cmd value: str is TRUE for a string (run through the shell), FALSE for
\* a list of tokens (run directly); prog is the program named.
CmdStr(p) == Some([str |-> TRUE, prog |-> p])
CmdList(p) == Some([str |-> FALSE, prog |-> p])

\* Values of the timeout key.
TimeoutAbsent == [kind |-> "absent", val |-> 0]
TimeoutNull == [kind |-> "null", val |-> 0]
TimeoutNum(n) == [kind |-> "num", val |-> n]
TimeoutBad == [kind |-> "str", val |-> 0]

\* The parameter mappings delivered: no cmd, a command that exits with 0, a
\* list command that exits with 1, a program that does not exist, a slow
\* command with and without a short timeout, a command that never exits with
\* a timeout, with the default and with timeout null, and a timeout of the
\* wrong type.
ParameterValues ==
    { [cmd |-> None, timeout |-> TimeoutAbsent],
      [cmd |-> CmdStr("true"), timeout |-> TimeoutAbsent],
      [cmd |-> CmdList("false"), timeout |-> TimeoutNum(1)],
      [cmd |-> CmdList("nosuch"), timeout |-> TimeoutAbsent],
      [cmd |-> CmdStr("sleep2"), timeout |-> TimeoutNum(1)],
      [cmd |-> CmdStr("sleep2"), timeout |-> TimeoutAbsent],
      [cmd |-> CmdStr("yes"), timeout |-> TimeoutNum(1)],
      [cmd |-> CmdStr("yes"), timeout |-> TimeoutAbsent],
      [cmd |-> CmdStr("yes"), timeout |-> TimeoutNull],
      [cmd |-> CmdStr("true"), timeout |-> TimeoutBad] }

\* A payload that is not a JSON object.
Garbage ==
    [json |-> FALSE, id |-> None, correlation_id |-> None,
     timestamp |-> None, parameters |-> [cmd |-> None, timeout |-> TimeoutAbsent]]

\* A JSON object without the required timestamp.
NoTimestamp ==
    [json |-> TRUE, id |-> Some("abc"), correlation_id |-> None,
     timestamp |-> None, parameters |-> [cmd |-> CmdStr("true"), timeout |-> TimeoutAbsent]]

\* The payloads delivered on the invoke subject: the two that do not decode,
\* every combination of id and correlation_id with a command that completes,
\* every parameter mapping, and a command that completes with the empty
\* timestamp.
Payloads ==
    {Garbage, NoTimestamp}
    \cup [json : {TRUE}, id : IdValues, correlation_id : CorrValues,
          timestamp : {Some("2025-01-01T00:00:00Z")},
          parameters : {[cmd |-> CmdStr("true"), timeout |-> TimeoutAbsent]}]
    \cup [json : {TRUE}, id : {Some("abc")}, correlation_id : {None},
          timestamp : {Some("2025-01-01T00:00:00Z")},
          parameters : ParameterValues]
    \cup [json : {TRUE}, id : {Some("abc")}, correlation_id : {None},
          timestamp : {Some("")},
          parameters : {[cmd |-> CmdStr("true"), timeout |-> TimeoutAbsent]}]

\* ------------------------------------------------- the child process

\* What the operating system does with a program: whether it can be spawned
\* without a shell, whether it exits on its own, after how many seconds and
\* with which exit code.
Exists(prog) == prog # "nosuch"
Exits(prog) == prog # "yes"
Duration(prog) == IF prog = "sleep2" THEN 2 ELSE 0
ExitCode(cmd) ==
    CASE ~Exists(cmd.prog) -> 127
      [] cmd.prog = "false" -> 1
      [] OTHER -> 0
Stdout(cmd) == IF cmd.prog = "true" THEN "hi\n" ELSE ""

\* parameters.get("timeout", 300): the value of the key, 300 when absent.
ParametersGetTimeout(parameters) ==
    IF parameters.timeout.kind = "absent" THEN TimeoutNum(DefaultTimeout)
    ELSE parameters.timeout

\* subprocess.run(cmd, shell=shell, capture_output=True, text=True,
\* check=False, timeout=timeout): the call completes, raises TimeoutExpired,
\* raises another exception, or never returns.  A missing program is a
\* spawn failure without a shell and exit code 127 of the shell with one; a
\* timeout that is not a number is a TypeError.
SubprocessRun(cmd, shell, timeout) ==
    CASE timeout.kind = "str" -> [kind |-> "Exception", rc |-> 0]
      [] ~shell /\ ~Exists(cmd.prog) -> [kind |-> "Exception", rc |-> 0]
      [] timeout.kind = "null" ->
            IF Exits(cmd.prog) THEN [kind |-> "completed", rc |-> ExitCode(cmd)]
            ELSE [kind |-> "blocks", rc |-> 0]
      [] OTHER ->
            IF Exits(cmd.prog) /\ Duration(cmd.prog) <= timeout.val
            THEN [kind |-> "completed", rc |-> ExitCode(cmd)]
            ELSE [kind |-> "TimeoutExpired", rc |-> 0]

\* ------------------------------------------------------------------ run_cli

\* `not cmd`: the key is absent (or null) or its value is empty.
CmdMissing(parameters) ==
    parameters.cmd = None \/ parameters.cmd[1].prog = ""

\* shell = isinstance(cmd, str)
Shell(parameters) == parameters.cmd[1].str

\* The outcome of the subprocess.run call of run_cli.
RunOutcome(parameters) ==
    SubprocessRun(parameters.cmd[1], Shell(parameters),
                  ParametersGetTimeout(parameters))

\* run_cli returning the output captured so far as a result when the child
\* is cut off by the timeout.
RunCliReturnPartial(parameters, outcome) ==
    CASE outcome.kind \in {"completed", "TimeoutExpired"} ->
            [returncode |-> outcome.rc,
             stdout |-> Stdout(parameters.cmd[1]),
             stderr |-> ""]
      [] OTHER ->
            [error |-> [message |-> "execution_failure", details |-> "Exception"]]

\* run_cli with check=True: a non-zero exit code raises CalledProcessError,
\* which the last except clause turns into an execution_failure.
RunCliReturnCheck(parameters, outcome) ==
    CASE outcome.kind = "completed" /\ outcome.rc = 0 ->
            [returncode |-> outcome.rc,
             stdout |-> Stdout(parameters.cmd[1]),
             stderr |-> ""]
      [] outcome.kind = "TimeoutExpired" ->
            [error |-> [message |-> "timeout", details |-> "TimeoutExpired"]]
      [] OTHER ->
            [error |-> [message |-> "execution_failure", details |-> "Exception"]]

\* The dict run_cli returns for an outcome of subprocess.run.
RunCliReturn(parameters, outcome) ==
    CASE outcome.kind = "completed" ->
            [returncode |-> outcome.rc,
             stdout |-> Stdout(parameters.cmd[1]),
             stderr |-> ""]
      [] outcome.kind = "TimeoutExpired" ->
            [error |-> [message |-> "timeout", details |-> "TimeoutExpired"]]
      [] OTHER ->
            [error |-> [message |-> "execution_failure", details |-> "Exception"]]

\* ------------------------------------------------------------ handle_invoke

\* InvokeEvent(**json.loads(msg.data.decode())): fails on a payload that is
\* not a JSON object or has no timestamp.
Decodes(payload) == payload.json /\ payload.timestamp # None

InvokeEvent(payload) ==
    [id |-> payload.id,
     correlation_id |-> payload.correlation_id,
     timestamp |-> payload.timestamp[1],
     parameters |-> payload.parameters]

\* evt.id or evt.correlation_id
CorrelationId(evt) == PyOr(evt.id, evt.correlation_id)

\* out built with the result key set unconditionally and the error key
\* added to it.
BuildOutBoth(evt, result) ==
    LET out == [subject |-> RESULT_SUBJECT,
                timestamp |-> evt.timestamp,
                correlation_id |-> PyOr(evt.id, evt.correlation_id),
                meta |-> [producer |-> "recon.tool_name", version |-> "1.0"],
                result |-> result]
    IN  IF "error" \in DOMAIN result
        THEN out @@ [error |-> result.error]
        ELSE out

\* The envelope of the normal path: out, with the error or the result key.
BuildOut(evt, result) ==
    LET out == [subject |-> RESULT_SUBJECT,
                timestamp |-> evt.timestamp,
                correlation_id |-> CorrelationId(evt),
                meta |-> [producer |-> "recon.tool_name", version |-> "1.0"]]
    IN  IF "error" \in DOMAIN result
        THEN out @@ [error |-> result.error]
        ELSE out @@ [result |-> result]

\* The except clause's envelope with the meta block of the normal path.
ExceptEnvelopeWithMeta(e) ==
    [subject |-> RESULT_SUBJECT,
     timestamp |-> "",
     correlation_id |-> None,
     meta |-> [producer |-> "recon.tool_name", version |-> "1.0"],
     error |-> [message |-> "unhandled_exception", details |-> e]]

\* The envelope published by the except clause for exception e.
ExceptEnvelope(e) ==
    [subject |-> RESULT_SUBJECT,
     timestamp |-> "",
     correlation_id |-> None,
     error |-> [message |-> "unhandled_exception", details |-> e]]

\* -------------------------------------------------------------------- state

VARIABLES
    listener,   \* nats_worker: "connecting" until subscribed, then "subscribed"
    inbox,      \* messages delivered to the subscription, callback not yet run
    arrived,    \* how many messages have been delivered
    tasks,      \* the handle_invoke tasks, in the order they were created
    blocked,    \* the task whose subprocess.run call holds the event loop, or 0
    bus         \* the messages published so far, in order

vars == <<listener, inbox, arrived, tasks, blocked, bus>>

Ids == 1..Len(tasks)

\* A task created by the subscription callback for a payload.
NewTask(payload) ==
    [msg |-> payload,
     pc |-> "ready",
     calls |-> 0,
     raised |-> <<>>]

Init ==
    /\ listener = "connecting"
    /\ inbox = <<>>
    /\ arrived = 0
    /\ tasks = <<>>
    /\ blocked = 0
    /\ bus = <<>>

\* ------------------------------------------------------------- nats_worker

\* nc.connect and nc.subscribe(INVOKE_SUBJECT, cb=...).
Subscribe ==
    /\ listener = "connecting"
    /\ listener' = "subscribed"
    /\ UNCHANGED <<inbox, arrived, tasks, blocked, bus>>

\* The broker delivers a message on the invoke subject.
Arrive(payload) ==
    /\ listener = "subscribed"
    /\ arrived < MaxMsgs
    /\ inbox' = Append(inbox, payload)
    /\ arrived' = arrived + 1
    /\ UNCHANGED <<listener, tasks, blocked, bus>>

\* The subscription callback: asyncio.create_task(handle_invoke(nc, m)).
\* It runs on the event loop, so not while a subprocess.run call holds it.
Dispatch ==
    /\ listener = "subscribed"
    /\ inbox # <<>>
    /\ blocked = 0
    /\ tasks' = Append(tasks, NewTask(Head(inbox)))
    /\ inbox' = Tail(inbox)
    /\ UNCHANGED <<listener, arrived, blocked, bus>>

\* ------------------------------------------------- handle_invoke, stepwise

\* The task's decoded event.
Evt(task) == InvokeEvent(task.msg)

\* An except clause that swallows the exception and publishes nothing.
EnterExceptSilent(task, e, ok) ==
    [task |-> [task EXCEPT !.raised = Append(@, e), !.pc = "done"],
     pub |-> <<>>]

\* An except clause that tries its publish call a second time when the first
\* one raises.
EnterExceptRetry(task, e, ok) ==
    [task |-> [task EXCEPT !.raised = IF ok THEN Append(@, e)
                                      ELSE Append(Append(@, e), "FallbackPublishError"),
                           !.pc = "fallback",
                           !.calls = IF ok THEN @ + 1 ELSE @ + 2],
     pub |-> <<ExceptEnvelope(e)>>]

\* The except clause, entered with exception e: nc.publish is called with
\* the fallback envelope.  The call puts the message on the bus (ok), and the
\* task waits for it to return, or it raises, and nothing catches that: the
\* exception leaves handle_invoke.  pub is what the call put on the bus.
EnterExcept(task, e, ok) ==
    IF ok
    THEN [task |-> [task EXCEPT !.raised = Append(@, e),
                                !.pc = "fallback",
                                !.calls = @ + 1],
          pub |-> <<ExceptEnvelope(e)>>]
    ELSE [task |-> [task EXCEPT !.raised = Append(Append(@, e), "FallbackPublishError"),
                                !.pc = "failed",
                                !.calls = @ + 1],
          pub |-> <<>>]

\* The first step of a task, up to the subprocess.run call: decoding, and
\* run_cli's check of cmd.
Begin(task, ok) ==
    IF ~Decodes(task.msg) THEN EnterExcept(task, "ValidationError", ok)
    ELSE IF CmdMissing(Evt(task).parameters) THEN EnterExcept(task, "ValueError", ok)
    ELSE [task |-> [task EXCEPT !.pc = "running"], pub |-> <<>>]

\* handle_invoke with the publish call of the normal path outside the try
\* block: an exception it raises leaves the handler.
AfterRunUncaught(task, ok1, ok2) ==
    LET parameters == Evt(task).parameters
        result == RunCliReturn(parameters, RunOutcome(parameters))
        out == BuildOut(Evt(task), result)
        called == [task EXCEPT !.calls = @ + 1]
    IN  IF ok1
        THEN [task |-> [called EXCEPT !.pc = "publishing"], pub |-> <<out>>]
        ELSE [task |-> [called EXCEPT !.raised = Append(@, "PublishError"),
                                      !.pc = "failed"],
              pub |-> <<>>]

\* subprocess.run has returned or raised: run_cli returns, out is built and
\* nc.publish(RESULT_SUBJECT, out) is called.  The call puts out on the bus
\* (ok1), or it raises and the except clause catches the exception.
AfterRun(task, ok1, ok2) ==
    LET parameters == Evt(task).parameters
        result == RunCliReturn(parameters, RunOutcome(parameters))
        out == BuildOut(Evt(task), result)
        called == [task EXCEPT !.calls = @ + 1]
    IN  IF ok1
        THEN [task |-> [called EXCEPT !.pc = "publishing"], pub |-> <<out>>]
        ELSE EnterExcept(called, "PublishError", ok2)

\* The bus after task t's step put the messages of pub on RESULT_SUBJECT.
Published(t, pub) ==
    bus \o [i \in 1..Len(pub) |->
                [task |-> t, subject |-> RESULT_SUBJECT, body |-> pub[i]]]

\* A task starts.  Tasks start in the order they were created, and run
\* without interruption up to the subprocess.run call, which holds the loop.
Start(t, ok) ==
    /\ blocked = 0
    /\ tasks[t].pc = "ready"
    /\ \A u \in 1..(t - 1) : tasks[u].pc # "ready"
    /\ tasks' = [tasks EXCEPT ![t] = Begin(@, ok).task]
    /\ bus' = Published(t, Begin(tasks[t], ok).pub)
    /\ blocked' = IF tasks'[t].pc = "running" THEN t ELSE 0
    /\ UNCHANGED <<listener, inbox, arrived>>

\* The subprocess.run call of task t ends and the task runs on to its
\* publish call.  A call that never returns keeps the loop for ever.
Finish(t, ok1, ok2) ==
    /\ blocked = t
    /\ tasks[t].pc = "running"
    /\ RunOutcome(Evt(tasks[t]).parameters).kind # "blocks"
    /\ tasks' = [tasks EXCEPT ![t] = AfterRun(@, ok1, ok2).task]
    /\ bus' = Published(t, AfterRun(tasks[t], ok1, ok2).pub)
    /\ blocked' = 0
    /\ UNCHANGED <<listener, inbox, arrived>>

\* The awaited publish call returns and handle_invoke returns.
Return(t) ==
    /\ blocked = 0
    /\ tasks[t].pc \in {"publishing", "fallback"}
    /\ tasks' = [tasks EXCEPT ![t].pc = "done"]
    /\ UNCHANGED <<listener, inbox, arrived, blocked, bus>>

\* ------------------------------------------- the HTTP application, main.py

\* Startup/shutdown cycles of the lifespan in one behaviour.
MaxCycles == 2

VARIABLES
    environ,      \* os.environ of the process, as far as main.py reads it
    lifespanPc,   \* "outside" the lifespan context, in "startup", or "yielded"
    lifespanExc,  \* the last exit of the lifespan context re-raised an exception
    cycles,       \* how many times the lifespan context has been entered
    state,        \* app.state: an attribute that was never set is None
    response      \* the last request, app.state and the lifespan's position
                  \* when it was served, and what the server answered; or None

appVars == <<environ, lifespanPc, lifespanExc, cycles, state, response>>

\* str.lower(), for the strings of the model.
Lower(s) ==
    CASE s = "TRUE" -> "true"
      [] s = "X-Content-Type-Options" -> "x-content-type-options"
      [] s = "X-Frame-Options" -> "x-frame-options"
      [] s = "Referrer-Policy" -> "referrer-policy"
      [] s = "Permissions-Policy" -> "permissions-policy"
      [] s = "Strict-Transport-Security" -> "strict-transport-security"
      [] OTHER -> s

\* The environment variables main.py reads: unset, or a value.
EnvironmentValues == {None, Some("dev"), Some("prod")}
NatsUrlValues == {None, Some("nats://nats:4222")}
NatsRequiredValues == {None, Some("1"), Some("TRUE"), Some("on")}
DefaultCorrelationIdValues == {None, Some(""), Some("env-corr")}

Environs ==
    [ENVIRONMENT : EnvironmentValues,
     NATS_URL : NatsUrlValues,
     NATS_REQUIRED : NatsRequiredValues,
     DEFAULT_CORRELATION_ID : DefaultCorrelationIdValues]

\* An environment with none of the variables set.
EmptyEnviron ==
    [ENVIRONMENT |-> None, NATS_URL |-> None, NATS_REQUIRED |-> None,
     DEFAULT_CORRELATION_ID |-> None]

\* os.getenv(name, default).
Getenv(value, default) == IF value = None THEN default ELSE value[1]

\* The module-level env, which decides about Strict-Transport-Security.
Env(e) == Getenv(e.ENVIRONMENT, "dev")

\* app.state of a freshly imported app: no attribute has been set.
FreshState ==
    [started |-> None, ready |-> None, service_info |-> None,
     dependencies |-> None]

\* The service_info mapping built by the lifespan (git metadata and build
\* time are left out: nothing in the application branches on them).
ServiceInfo(e) ==
    [service |-> "wraiths-core", version |-> "1.0.0",
     environment |-> Getenv(e.ENVIRONMENT, "dev")]

\* The dependencies mapping built by the lifespan.
Dependencies(e) ==
    [nats |->
        [configured |-> Truthy(e.NATS_URL),
         connected |-> None,
         required |-> Lower(Getenv(e.NATS_REQUIRED, "false"))
                          \in {"1", "true", "yes"}]]

\* Python truthiness of None / False / True.
IsTrue(o) == o # None /\ o[1]

\* ---- responses

\* Response headers: a function from lower-case header names to values
\* (Starlette's MutableHeaders compares names case-insensitively).
NoHeaders == [name \in {} |-> ""]

\* MutableHeaders.setdefault: a value that is already there is kept.
SetDefault(headers, name, value) == headers @@ (Lower(name) :> value)

Has(headers, name) == Lower(name) \in DOMAIN headers

\* An exception leaving a handler or a middleware.
Raise(e) == [raised |-> e]
IsRaise(r) == "raised" \in DOMAIN r

\* ---- endpoints

\* GET /health.
health_check(st) ==
    IF st.service_info = None
    THEN Raise("AttributeError")
    ELSE [status |-> 200, headers |-> NoHeaders,
          body |-> [status |-> "healthy",
                    service |-> st.service_info[1].service,
                    version |-> st.service_info[1].version]]

\* GET /version.
version_info(st) ==
    IF st.service_info = None
    THEN Raise("AttributeError")
    ELSE [status |-> 200, headers |-> NoHeaders, body |-> st.service_info[1]]

\* A readiness probe that looks at app.state.started only.
readinessStartedOnly(st) ==
    IF st.dependencies = None \/ st.service_info = None
    THEN Raise("AttributeError")
    ELSE LET ready == IsTrue(st.started)
         IN  [status |-> IF ready THEN 200 ELSE 503, headers |-> NoHeaders,
              body |-> [ready |-> ready,
                        dependencies |-> st.dependencies[1],
                        service |-> st.service_info[1].service,
                        environment |-> st.service_info[1].environment]]

\* GET /ready.
readiness(st) ==
    IF st.dependencies = None \/ st.service_info = None
    THEN Raise("AttributeError")
    ELSE LET deps == st.dependencies[1]
             ready ==
                 /\ IsTrue(st.started)
                 /\ \A name \in DOMAIN deps :
                        ~(deps[name].required /\ ~IsTrue(deps[name].connected))
         IN  [status |-> IF ready THEN 200 ELSE 503, headers |-> NoHeaders,
              body |-> [ready |-> ready,
                        dependencies |-> deps,
                        service |-> st.service_info[1].service,
                        environment |-> st.service_info[1].environment]]

\* ---- middleware

\* Values of the request's x-correlation-id header: not sent, empty, a token.
HeaderValues == {None, Some(""), Some("test-corr-123")}

\* What os.urandom(6).hex() gives: a token of twelve hex digits, or None
\* when os.urandom raises.
UrandomValues == {None, Some("a1b2c3d4e5f6"), Some("0f1e2d3c4b5a")}

\* A correlation id that is always generated.
corrGenerated(header, e, rnd) ==
    IF rnd = None THEN "unknown" ELSE rnd[1]

\* The correlation id RequestLoggingMiddleware settles on.
corr(header, e, rnd) ==
    LET given == PyOr(header, e.DEFAULT_CORRELATION_ID)
    IN  IF Truthy(given) THEN given[1]
        ELSE IF rnd = None THEN "unknown" ELSE rnd[1]

\* RequestLoggingMiddleware.dispatch around the inner result: service_info
\* is read before the inner application is called; an exception of the inner
\* application is logged and raised again.
RequestLoggingDispatch(st, e, header, rnd, inner) ==
    IF st.service_info = None THEN Raise("AttributeError")
    ELSE IF IsRaise(inner) THEN inner
    ELSE [inner EXCEPT
            !.headers = SetDefault(@, "x-correlation-id", corr(header, e, rnd))]

\* A security middleware that overwrites what the inner application set and
\* sends Strict-Transport-Security in every environment.
SecurityHeadersOverwrite(e, inner) ==
    IF IsRaise(inner) THEN inner
    ELSE [inner EXCEPT !.headers =
            (Lower("X-Content-Type-Options") :> "nosniff"
             @@ Lower("X-Frame-Options") :> "DENY"
             @@ Lower("Referrer-Policy") :> "no-referrer"
             @@ Lower("Permissions-Policy")
                    :> "geolocation=(), microphone=(), camera=()"
             @@ Lower("Strict-Transport-Security")
                    :> "max-age=63072000; includeSubDomains; preload")
            @@ @]

\* SecurityHeadersMiddleware.dispatch around the inner result.
SecurityHeadersDispatch(e, inner) ==
    IF IsRaise(inner) THEN inner
    ELSE LET h1 == SetDefault(inner.headers, "X-Content-Type-Options", "nosniff")
             h2 == SetDefault(h1, "X-Frame-Options", "DENY")
             h3 == SetDefault(h2, "Referrer-Policy", "no-referrer")
             h4 == SetDefault(h3, "Permissions-Policy",
                              "geolocation=(), microphone=(), camera=()")
             h5 == IF Env(e) # "dev"
                   THEN SetDefault(h4, "Strict-Transport-Security",
                            "max-age=63072000; includeSubDomains; preload")
                   ELSE h4
         IN  [inner EXCEPT !.headers = h5]

\* The application as the server calls it: SecurityHeadersMiddleware is added
\* last and so is outermost, RequestLoggingMiddleware is inside it, then
\* CORSMiddleware (which leaves a request without an Origin header alone),
\* then the route.  An exception that leaves the stack is answered with 500.
Serve(st, e, header, rnd, result) ==
    LET r == SecurityHeadersDispatch(e,
                 RequestLoggingDispatch(st, e, header, rnd, result))
    IN  IF IsRaise(r)
        THEN [status |-> 500, headers |-> NoHeaders, raised |-> TRUE,
              body |-> [detail |-> "Internal Server Error"]]
        ELSE [status |-> r.status, headers |-> r.headers, raised |-> FALSE,
              body |-> r.body]

\* ---- the application's steps

\* The app right after import under environment e.
AppImported(e) ==
    /\ environ = e
    /\ lifespanPc = "outside"
    /\ lifespanExc = FALSE
    /\ cycles = 0
    /\ state = FreshState
    /\ response = None

\* The application is imported under some environment; the worker of the
\* template is a different process and is not started.
AppInit == Init /\ \E e \in Environs : AppImported(e)

\* lifespan up to the optional tracing setup: started is cleared and
\* service_info is stored.
LifespanEnter ==
    /\ lifespanPc = "outside"
    /\ cycles < MaxCycles
    /\ lifespanPc' = "startup"
    /\ cycles' = cycles + 1
    /\ state' = [state EXCEPT !.started = Some(FALSE),
                              !.service_info = Some(ServiceInfo(environ))]
    /\ UNCHANGED <<environ, lifespanExc, response>>

\* A startup that finds the nats dependency connected.
LifespanStartupConnected ==
    /\ lifespanPc = "startup"
    /\ lifespanPc' = "yielded"
    /\ state' = [state EXCEPT
                    !.started = Some(TRUE),
                    !.ready = Some(TRUE),
                    !.dependencies =
                        Some([Dependencies(environ) EXCEPT
                                 !.nats.connected = Some(TRUE)])]
    /\ UNCHANGED <<environ, lifespanExc, cycles, response>>

\* lifespan from "starting up" to the yield.
LifespanStartup ==
    /\ lifespanPc = "startup"
    /\ lifespanPc' = "yielded"
    /\ state' = [state EXCEPT !.started = Some(TRUE),
                              !.ready = Some(TRUE),
                              !.dependencies = Some(Dependencies(environ))]
    /\ UNCHANGED <<environ, lifespanExc, cycles, response>>

\* A shutdown that clears started only when the body ended normally.
LifespanShutdownOnReturn(exc) ==
    /\ lifespanPc = "yielded"
    /\ lifespanPc' = "outside"
    /\ lifespanExc' = exc
    /\ state' = IF exc THEN state ELSE [state EXCEPT !.started = Some(FALSE)]
    /\ UNCHANGED <<environ, cycles, response>>

\* The finally clause of lifespan, run when the body of the context ends,
\* normally or (exc) with an exception that is raised again afterwards.
LifespanShutdown(exc) ==
    /\ lifespanPc = "yielded"
    /\ lifespanPc' = "outside"
    /\ lifespanExc' = exc
    /\ state' = [state EXCEPT !.started = Some(FALSE)]
    /\ UNCHANGED <<environ, cycles, response>>

\* A request is served while the lifespan is at its yield (a running server,
\* a test client used as a context manager) or outside of it (a test client
\* that never entered the context, or after shutdown).
Request(path, header, rnd, result) ==
    /\ lifespanPc \in {"outside", "yielded"}
    /\ response' = Some([path |-> path, header |-> header,
                         lifespanPc |-> lifespanPc, state |-> state]
                        @@ Serve(state, environ, header, rnd, result))
    /\ UNCHANGED <<environ, lifespanPc, lifespanExc, cycles, state>>

GetHealth(header, rnd) == Request("/health", header, rnd, health_check(state))

GetVersion(header, rnd) == Request("/version", header, rnd, version_info(state))

GetReady(header, rnd) == Request("/ready", header, rnd, readiness(state))

\* ----------------------------------------------------------- specifications

\* The worker process; the HTTP application shares no state with it.
Next ==
    \/ Subscribe /\ UNCHANGED appVars
    \/ \E payload \in Payloads : Arrive(payload) /\ UNCHANGED appVars
    \/ Dispatch /\ UNCHANGED appVars
    \/ \E t \in Ids, ok \in BOOLEAN : Start(t, ok) /\ UNCHANGED appVars
    \/ \E t \in Ids, ok1, ok2 \in BOOLEAN :
            Finish(t, ok1, ok2) /\ UNCHANGED appVars
    \/ \E t \in Ids : Return(t) /\ UNCHANGED appVars

\* The worker starts; the application module is imported and never run.
WorkerInit == Init /\ AppImported(EmptyEnviron)

Spec == WorkerInit /\ [][Next]_<<vars, appVars>>

\* The HTTP application process.
AppNext ==
    \/ LifespanEnter /\ UNCHANGED vars
    \/ LifespanStartup /\ UNCHANGED vars
    \/ \E exc \in BOOLEAN : LifespanShutdown(exc) /\ UNCHANGED vars
    \/ \E header \in HeaderValues, rnd \in UrandomValues :
            GetHealth(header, rnd) /\ UNCHANGED vars
    \/ \E header \in HeaderValues, rnd \in UrandomValues :
            GetVersion(header, rnd) /\ UNCHANGED vars
    \/ \E header \in HeaderValues, rnd \in UrandomValues :
            GetReady(header, rnd) /\ UNCHANGED vars

AppSpec == AppInit /\ [][AppNext]_<<vars, appVars>>

\* ------------------------------------------------------------- properties

\* The positions on the bus of the messages published for task t.
Replies(t) == {i \in 1..Len(bus) : bus[i].task = t}

\* The handler of task t has ended, normally or with an exception.
Finished(t) == tasks[t].pc \in {"done", "failed"}

\* No publish call of task t has raised.
PublishSucceeded(t) ==
    \A k \in 1..Len(tasks[t].raised) :
        tasks[t].raised[k] \notin {"PublishError", "FallbackPublishError"}

\* The publish call of the try block of task t was made and raised.
FirstPublishRaised(t) ==
    \E k \in 1..Len(tasks[t].raised) : tasks[t].raised[k] = "PublishError"

\* The message has the shape of the except clause's envelope.
IsFallbackShape(body) ==
    /\ DOMAIN body = {"subject", "timestamp", "correlation_id", "error"}
    /\ body.subject = RESULT_SUBJECT
    /\ body.timestamp = ""
    /\ body.correlation_id = None
    /\ body.error.message = "unhandled_exception"

\* C1: every handler whose publish calls succeed has published exactly one
\* message by the time it finishes, never two at any time, and every message
\* it publishes is on the result subject.
C1_ExactlyOneReply ==
    \A t \in Ids :
        PublishSucceeded(t) =>
            /\ Cardinality(Replies(t)) <= 1
            /\ Finished(t) => Cardinality(Replies(t)) = 1
            /\ \A i \in Replies(t) : bus[i].subject = RESULT_SUBJECT

\* C1 witness: a malformed payload and a valid envelope have both been
\* handled to the end, with every publish call succeeding.
C1_Witness ==
    \E t, u \in Ids :
        /\ Finished(t) /\ Finished(u)
        /\ PublishSucceeded(t) /\ PublishSucceeded(u)
        /\ ~Decodes(tasks[t].msg)
        /\ Decodes(tasks[u].msg) /\ ~CmdMissing(tasks[u].msg.parameters)
        /\ Len(bus) = 2

\* C2 as stated: no exception ever leaves handle_invoke.
C2_NoExceptionPropagates ==
    \A t \in Ids : tasks[t].pc # "failed"

\* C2 amended: an exception leaves handle_invoke only when the publish call
\* of the except clause raised it; every other exception (decoding, run_cli,
\* the publish call of the try block) is caught and, when that fallback
\* publish succeeds, becomes the one message published for the task; and the
\* listener stays subscribed and can still dispatch whatever has arrived.
C2_OnlyFallbackPublishPropagates ==
    /\ \A t \in Ids :
        LET raised == tasks[t].raised IN
        /\ tasks[t].pc = "failed" <=>
              (raised # <<>> /\ raised[Len(raised)] = "FallbackPublishError")
        /\ (raised # <<>> /\ tasks[t].pc # "failed") =>
              /\ tasks[t].pc \in {"fallback", "done"}
              /\ Cardinality(Replies(t)) = 1
              /\ \A i \in Replies(t) :
                    bus[i].body = ExceptEnvelope(raised[Len(raised)])
    /\ (\E t \in Ids : tasks[t].pc = "failed") =>
          /\ listener = "subscribed"
          /\ (inbox # <<>> /\ blocked = 0) => ENABLED Dispatch

\* C2 witness: a handler has ended with an exception and a message received
\* after it has been handled to the end.
C2_Witness ==
    \E t, u \in Ids :
        /\ t < u
        /\ tasks[t].pc = "failed"
        /\ tasks[u].pc = "done"
        /\ Replies(u) # {}

\* The reply the claim C3 describes for a decoded envelope.
ClaimedCorrelationId(msg) ==
    IF msg.id # None THEN msg.id
    ELSE IF msg.correlation_id # None THEN msg.correlation_id
    ELSE None

\* C3 as stated: the correlation_id of the reply to a decoded envelope is
\* the inbound id when present, else the inbound correlation_id when
\* present, else null.
C3_CorrelationIdFromIdElseCorrelationId ==
    \A i \in 1..Len(bus) :
        LET msg == tasks[bus[i].task].msg IN
        Decodes(msg) => bus[i].body.correlation_id = ClaimedCorrelationId(msg)

\* C4: every published message has exactly one of the keys result and error.
C4_ExactlyOneOfResultAndError ==
    \A i \in 1..Len(bus) :
        ("result" \in DOMAIN bus[i].body) # ("error" \in DOMAIN bus[i].body)

\* C4 witness: a reply of the normal path with a result and a reply of the
\* except clause are both on the bus.
C4_Witness ==
    \E i, j \in 1..Len(bus) :
        /\ "result" \in DOMAIN bus[i].body
        /\ "meta" \in DOMAIN bus[i].body
        /\ IsFallbackShape(bus[j].body)

\* The inbound message answered by the i-th message on the bus.
Inbound(i) == tasks[bus[i].task].msg

\* The envelope decodes and names a command, so run_cli runs a child.
RunsCommand(msg) == Decodes(msg) /\ ~CmdMissing(msg.parameters)

\* The child of the message's command can be spawned.
Spawns(msg) == msg.parameters.cmd[1].str \/ Exists(msg.parameters.cmd[1].prog)

\* The message is a failure other than a missing command: a payload that
\* does not decode, or a command that was run and did not complete.
OtherFailure(i) ==
    /\ "error" \in DOMAIN bus[i].body
    /\ \/ ~Decodes(Inbound(i))
       \/ RunsCommand(Inbound(i))

\* C5 as stated: the reply to a decoded envelope without cmd has an error
\* and no result, and its error.message is "execution_failure" or a message
\* that no reply to another kind of failure carries.
C5_MissingCmdDistinguishable ==
    \A i \in 1..Len(bus) :
        (Decodes(Inbound(i)) /\ Inbound(i).parameters.cmd = None) =>
            /\ "error" \in DOMAIN bus[i].body
            /\ "result" \notin DOMAIN bus[i].body
            /\ \/ bus[i].body.error.message = "execution_failure"
               \/ \A j \in 1..Len(bus) :
                     OtherFailure(j) =>
                        bus[j].body.error.message # bus[i].body.error.message

\* C6 as stated: a payload that does not decode gets exactly one message of
\* the fallback shape and its handler ends normally.
C6_MalformedOneFallbackReply ==
    \A t \in Ids :
        (~Decodes(tasks[t].msg) /\ Finished(t)) =>
            /\ tasks[t].pc = "done"
            /\ Cardinality(Replies(t)) = 1
            /\ \A i \in Replies(t) :
                  bus[i].subject = RESULT_SUBJECT /\ IsFallbackShape(bus[i].body)

\* C6 amended: when the publish call of the except clause succeeds, a
\* payload that does not decode gets exactly one message, of the fallback
\* shape, on the result subject, and its handler ends normally; when that
\* call raises, nothing is published for it and its handler ends with the
\* exception.  Either way the listener can still dispatch later messages.
C6_MalformedOneFallbackReplyIfPublished ==
    \A t \in Ids :
        (~Decodes(tasks[t].msg) /\ tasks[t].pc # "ready") =>
            /\ \A i \in Replies(t) :
                  bus[i].subject = RESULT_SUBJECT /\ IsFallbackShape(bus[i].body)
            /\ IF PublishSucceeded(t)
               THEN Cardinality(Replies(t)) = 1 /\ tasks[t].pc \in {"fallback", "done"}
               ELSE Replies(t) = {} /\ tasks[t].pc = "failed"
            /\ (inbox # <<>> /\ blocked = 0) => ENABLED Dispatch

\* C6 witness: a payload that is not JSON has its one fallback reply, and a
\* message received after it has been answered too.
C6_Witness ==
    \E t, u \in Ids :
        /\ t < u
        /\ ~tasks[t].msg.json
        /\ tasks[t].pc = "done"
        /\ tasks[u].pc = "done"
        /\ Replies(t) # {} /\ Replies(u) # {}

\* The command of the message runs longer than its parameters.timeout.
RunsLongerThanTimeout(msg) ==
    /\ RunsCommand(msg)
    /\ Spawns(msg)
    /\ msg.parameters.timeout.kind = "num"
    /\ \/ ~Exits(msg.parameters.cmd[1].prog)
       \/ Duration(msg.parameters.cmd[1].prog) > msg.parameters.timeout.val

\* The message is a reply of the normal path to msg, with key as its
\* result or error key: inbound timestamp, computed correlation_id, meta.
IsNormalShape(body, msg, key) ==
    /\ DOMAIN body = {"subject", "timestamp", "correlation_id", "meta", key}
    /\ body.subject = RESULT_SUBJECT
    /\ body.timestamp = msg.timestamp[1]
    /\ body.correlation_id = PyOr(msg.id, msg.correlation_id)
    /\ body.meta = [producer |-> "recon.tool_name", version |-> "1.0"]

\* C7 as stated: the reply to a command that ran longer than its timeout is
\* a normal-path reply with error.message "timeout" and no result key.
C7_TimeoutReply ==
    \A i \in 1..Len(bus) :
        RunsLongerThanTimeout(Inbound(i)) =>
            /\ IsNormalShape(bus[i].body, Inbound(i), "error")
            /\ bus[i].body.error.message = "timeout"

\* C7 amended: the reply to a command that ran longer than its timeout never
\* has a result key; it is a normal-path reply with error.message "timeout"
\* when the publish call of the try block succeeded, and the fallback
\* envelope of the except clause when that call raised.
C7_TimeoutReplyIfPublished ==
    \A i \in 1..Len(bus) :
        RunsLongerThanTimeout(Inbound(i)) =>
            /\ "result" \notin DOMAIN bus[i].body
            /\ IF FirstPublishRaised(bus[i].task)
               THEN IsFallbackShape(bus[i].body)
               ELSE /\ IsNormalShape(bus[i].body, Inbound(i), "error")
                    /\ bus[i].body.error.message = "timeout"

\* C7 witness: a command that ran longer than its timeout has its timeout
\* reply on the bus.
C7_Witness ==
    \E i \in 1..Len(bus) :
        /\ RunsLongerThanTimeout(Inbound(i))
        /\ "error" \in DOMAIN bus[i].body
        /\ bus[i].body.error.message = "timeout"

\* The child of the message's command runs to completion within the timeout
\* that applies.
ChildCompletes(msg) ==
    /\ RunsCommand(msg)
    /\ Spawns(msg)
    /\ Exits(msg.parameters.cmd[1].prog)
    /\ CASE msg.parameters.timeout.kind = "num" ->
                Duration(msg.parameters.cmd[1].prog) <= msg.parameters.timeout.val
         [] msg.parameters.timeout.kind = "absent" ->
                Duration(msg.parameters.cmd[1].prog) <= DefaultTimeout
         [] msg.parameters.timeout.kind = "null" -> TRUE
         [] OTHER -> FALSE

\* The result mapping of a completed child.
CompletedResult(msg) ==
    [returncode |-> ExitCode(msg.parameters.cmd[1]),
     stdout |-> Stdout(msg.parameters.cmd[1]),
     stderr |-> ""]

\* C8 as stated: the reply to a command whose child completed, with any exit
\* code, has the result {returncode, stdout, stderr} and no error key.
C8_CompletedReply ==
    \A i \in 1..Len(bus) :
        ChildCompletes(Inbound(i)) =>
            /\ "error" \notin DOMAIN bus[i].body
            /\ "result" \in DOMAIN bus[i].body
            /\ bus[i].body.result = CompletedResult(Inbound(i))

\* C8 amended: the reply to a command whose child completed, with any exit
\* code, is a normal-path reply with the result {returncode, stdout, stderr}
\* and no error key when the publish call of the try block succeeded, and
\* the fallback envelope of the except clause when that call raised.
C8_CompletedReplyIfPublished ==
    \A i \in 1..Len(bus) :
        ChildCompletes(Inbound(i)) =>
            IF FirstPublishRaised(bus[i].task)
            THEN IsFallbackShape(bus[i].body)
            ELSE /\ IsNormalShape(bus[i].body, Inbound(i), "result")
                 /\ bus[i].body.result = CompletedResult(Inbound(i))

\* C8 witness: a child that exited with a non-zero code has its result on
\* the bus.
C8_Witness ==
    \E i \in 1..Len(bus) :
        /\ ChildCompletes(Inbound(i))
        /\ "result" \in DOMAIN bus[i].body
        /\ bus[i].body.result.returncode # 0

\* Task a's command runs longer than task b's.
RunsLonger(a, b) ==
    /\ RunsCommand(tasks[a].msg) /\ RunsCommand(tasks[b].msg)
    /\ ChildCompletes(tasks[a].msg) /\ ChildCompletes(tasks[b].msg)
    /\ Duration(tasks[a].msg.parameters.cmd[1].prog)
          > Duration(tasks[b].msg.parameters.cmd[1].prog)

\* C9 as stated: a message received after one whose command runs longer can
\* be answered first: while the earlier handler's command is still running,
\* the later handler can run.
C9_LaterReplyNotHeldBack ==
    \A a, b \in Ids :
        (a < b /\ tasks[a].pc = "running" /\ tasks[b].pc = "ready"
               /\ RunsLonger(a, b)) =>
            ENABLED Start(b, TRUE)

\* C10 as stated: while a handler's command is running, the listener can
\* take the next message and create its handler.
C10_DispatchNotBlockedByCommand ==
    \A t \in Ids :
        (tasks[t].pc = "running" /\ inbox # <<>>) => ENABLED Dispatch

\* C16 as stated: the reply to an envelope that decoded carries the inbound
\* timestamp, whatever happened after decoding, and the reply to a payload
\* that did not decode carries the empty string.
C16_TimestampVerbatim ==
    \A i \in 1..Len(bus) :
        IF Decodes(Inbound(i))
        THEN bus[i].body.timestamp = Inbound(i).timestamp[1]
        ELSE bus[i].body.timestamp = ""

\* C17 as stated: at most one publish call is made for an inbound message.
C17_AtMostOnePublishCall ==
    \A t \in Ids : tasks[t].calls <= 1

\* C17 amended: a reply whose publish call raised is not published again;
\* the except clause makes one more publish call, for its own envelope, and
\* when that call raises no further call is made.  So a message gets at most
\* two publish calls, two exactly when the call of the try block raised, and
\* at most one message on the bus, none when the handler ended with the
\* exception.
C17_OneFallbackCallNoRetry ==
    \A t \in Ids :
        /\ tasks[t].calls <= 2
        /\ tasks[t].calls = 2 <=> FirstPublishRaised(t)
        /\ tasks[t].pc \in {"ready", "running"} <=> tasks[t].calls = 0
        /\ Cardinality(Replies(t)) <= 1
        /\ tasks[t].pc = "failed" => Replies(t) = {}
        /\ FirstPublishRaised(t) =>
              \A i \in Replies(t) : IsFallbackShape(bus[i].body)

\* C17 witness: the publish call of the try block raised after the command
\* had run, and the except clause's call published its envelope.
C17_Witness ==
    \E t \in Ids :
        /\ RunsCommand(tasks[t].msg)
        /\ FirstPublishRaised(t)
        /\ tasks[t].calls = 2
        /\ tasks[t].pc = "done"
        /\ Replies(t) # {}

\* The steps the event loop takes on its own: the subscription callback and
\* the steps of the handler tasks.
LoopStep ==
    \/ Dispatch
    \/ \E t \in Ids, ok \in BOOLEAN : Start(t, ok)
    \/ \E t \in Ids, ok1, ok2 \in BOOLEAN : Finish(t, ok1, ok2)
    \/ \E t \in Ids : Return(t)

\* The worker with an event loop that runs whatever is ready to run.
FairSpec == Spec /\ WF_vars(LoopStep)

\* C18 as stated: every handler that was created eventually finishes, with a
\* reply on the bus unless a publish call raised.
C18_EveryHandlerFinishes ==
    \A n \in 1..MaxMsgs :
        (Len(tasks) >= n) ~>
            (/\ Len(tasks) >= n
             /\ Finished(n)
             /\ PublishSucceeded(n) => Replies(n) # {})

\* --------------------------------------------- properties of the HTTP app

\* The last request was for path and its response came back through the
\* middleware stack (no exception reached the server's error handler).
Answered(path) ==
    /\ response # None
    /\ response[1].path = path
    /\ ~response[1].raised

\* "Ready" as C11 defines it: started is true and every dependency whose
\* required flag is set has a truthy connected flag.
ShouldBeReady(st) ==
    /\ IsTrue(st.started)
    /\ \A name \in DOMAIN st.dependencies[1] :
            st.dependencies[1][name].required
                => IsTrue(st.dependencies[1][name].connected)

\* What C11 says of a readiness response r given for app.state st.
ReadinessAsClaimed(r, st) ==
    /\ r.status = (IF ShouldBeReady(st) THEN 200 ELSE 503)
    /\ {"ready", "dependencies"} \subseteq DOMAIN r.body
    /\ r.body.ready = ShouldBeReady(st)
    /\ r.body.dependencies = st.dependencies[1]

\* Values app.state can hold once the lifespan has run, with every value of
\* the started attribute and of the nats flags.
StatesAfterLifespan ==
    {[started |-> started, ready |-> Some(TRUE),
      service_info |-> Some(ServiceInfo(EmptyEnviron)),
      dependencies |-> Some([nats |-> [configured |-> configured,
                                       connected |-> connected,
                                       required |-> required]])] :
        started \in {None, Some(FALSE), Some(TRUE)},
        configured \in BOOLEAN,
        connected \in {None, Some(FALSE), Some(TRUE)},
        required \in BOOLEAN}

\* C11: once the lifespan has run, GET /ready answers 200 with ready=true
\* exactly when started is true and every required dependency is connected,
\* and 503 with ready=false otherwise; the body has the keys ready and
\* dependencies.  This holds of every /ready response of the application and
\* of the readiness function on every value of the flags.
C11_ReadyIffStartedAndRequiredConnected ==
    /\ (response # None /\ response[1].path = "/ready"
            /\ response[1].state.dependencies # None)
        => /\ ~response[1].raised
           /\ ReadinessAsClaimed(response[1], response[1].state)
    /\ \A st \in StatesAfterLifespan :
            ~IsRaise(readiness(st)) /\ ReadinessAsClaimed(readiness(st), st)

\* C11 witness: a /ready request, served while the lifespan is at its yield
\* and nats is not required, was answered 200 with ready=true.
C11_Witness ==
    /\ Answered("/ready")
    /\ response[1].lifespanPc = "yielded"
    /\ response[1].status = 200
    /\ response[1].body.ready

\* C12: started is true while the lifespan context is at its yield, and false
\* once its finally clause has run, whether the body ended normally or with
\* an exception, in every cycle.
C12_StartedWhileLifespanActive ==
    /\ lifespanPc = "yielded" => state.started = Some(TRUE)
    /\ lifespanPc = "startup" => state.started = Some(FALSE)
    /\ (lifespanPc = "outside" /\ cycles > 0) => state.started = Some(FALSE)
    /\ (lifespanPc = "outside" /\ cycles = 0) => state.started = None

\* C12 witness: the second cycle's body ended with an exception and started
\* is false.
C12_Witness ==
    /\ cycles = 2
    /\ lifespanPc = "outside"
    /\ lifespanExc
    /\ state.started = Some(FALSE)

\* The x-correlation-id header of the last response.
CorrelationHeader == response[1].headers[Lower("x-correlation-id")]

\* The tokens RequestLoggingMiddleware can generate.
Generated == {rnd[1] : rnd \in UrandomValues \ {None}} \cup {"unknown"}

C14_HealthAlways200 ==
    (response # None /\ response[1].path = "/health") =>
        /\ response[1].status = 200
        /\ response[1].body =
              [status |-> "healthy", service |-> "wraiths-core",
               version |-> "1.0.0"]

\* The headers SecurityHeadersMiddleware sets in every environment.
HardeningHeaders ==
    {"X-Content-Type-Options", "X-Frame-Options", "Referrer-Policy",
     "Permissions-Policy"}

\* Headers an inner application may have set on its response.
InnerHeaderValues ==
    {NoHeaders,
     Lower("X-Frame-Options") :> "SAMEORIGIN",
     Lower("Referrer-Policy") :> "origin"
        @@ Lower("X-Content-Type-Options") :> "nosniff",
     Lower("Strict-Transport-Security") :> "max-age=0",
     Lower("x-correlation-id") :> "inner"
        @@ Lower("Permissions-Policy") :> "camera=()"}

\* What C15 says of the headers out that the middleware returns for the
\* inner headers in under environment e.
SecurityHeadersAsClaimed(out, in, e) ==
    /\ \A name \in HardeningHeaders : Has(out, name)
    /\ \A name \in DOMAIN in : name \in DOMAIN out /\ out[name] = in[name]
    /\ Has(out, "Strict-Transport-Security")
          <=> (Env(e) # "dev" \/ Has(in, "Strict-Transport-Security"))
    /\ DOMAIN out \subseteq
          DOMAIN in \cup {Lower(name) : name \in HardeningHeaders}
                    \cup {Lower("Strict-Transport-Security")}

\* C15: every response returned through SecurityHeadersMiddleware carries
\* the four hardening headers, a value the inner handler set is kept, and
\* Strict-Transport-Security is added exactly when ENVIRONMENT is not "dev".
\* This holds of every response of the application and of the middleware on
\* every inner header set.
C15_SecurityHeaders ==
    /\ (response # None /\ ~response[1].raised) =>
          /\ \A name \in HardeningHeaders : Has(response[1].headers, name)
          /\ Has(response[1].headers, "Strict-Transport-Security")
                <=> Env(environ) # "dev"
    /\ \A e \in {[EmptyEnviron EXCEPT !.ENVIRONMENT = v] :
                    v \in EnvironmentValues},
          in \in InnerHeaderValues :
          LET r == SecurityHeadersDispatch(e,
                       [status |-> 200, headers |-> in, body |-> <<>>])
          IN  SecurityHeadersAsClaimed(r.headers, in, e)

\* C15 witness: outside "dev", a response came back with the four headers
\* and Strict-Transport-Security.
C15_Witness ==
    /\ Answered("/version")
    /\ Env(environ) = "prod"
    /\ Has(response[1].headers, "Strict-Transport-Security")
    /\ response[1].headers[Lower("X-Frame-Options")] = "DENY"

\* NATS_REQUIRED marks the nats dependency required.
NatsRequired == Dependencies(environ).nats.required

\* C19: when NATS_REQUIRED marks nats required, no GET /ready is answered
\* 200: the connected flag is None from startup on and nothing sets it.
C19_RequiredNatsNeverReady ==
    /\ state.dependencies # None
          => state.dependencies[1].nats.connected = None
    /\ (NatsRequired /\ response # None /\ response[1].path = "/ready")
          => response[1].status # 200

\* C19 witness: with nats required, a /ready request served while the
\* lifespan was at its yield and started was true was answered 503.
C19_Witness ==
    /\ NatsRequired
    /\ Answered("/ready")
    /\ response[1].lifespanPc = "yielded"
    /\ response[1].state.started = Some(TRUE)
    /\ response[1].status = 503
    /\ ~response[1].body.ready

====
